---- MODULE Spec2Model ----
(***************************************************************************)
(* The variant-selection and hover-preview state machine of ProductCard    *)
(* (src/app/components/ProductCard.tsx).                                   *)
(*                                                                         *)
(* React state updates are not applied by the handler that calls the       *)
(* setter: a setter appends an update to the hook's queue, a later render  *)
(* reduces the queue in call order and commits, and the passive effect     *)
(* (useEffect) of the commit runs after it.  A click is a discrete event:  *)
(* its render and its effects are flushed before the browser runs another  *)
(* task.  mouseenter/mouseleave and timer callbacks are not, so other      *)
(* tasks (an interval callback among them) can run between the handler,    *)
(* the render and the effect.                                              *)
(***************************************************************************)
EXTENDS Integers, Sequences, FiniteSets, TLC

\* Bound on the number of handler/timer batches waiting for a render.
MaxPending == 2

----------------------------------------------------------------------------
\* Strings are sequences of characters, so that toLowerCase is computed.

Color == <<"C", "o", "l", "o", "r">>
color == <<"c", "o", "l", "o", "r">>
COLOR == <<"C", "O", "L", "O", "R">>
Size  == <<"S", "i", "z", "e">>
Red   == <<"R", "e", "d">>
red   == <<"r", "e", "d">>
RED   == <<"R", "E", "D">>
Blue  == <<"B", "l", "u", "e">>
blue  == <<"b", "l", "u", "e">>
Gold  == <<"G", "o", "l", "d">>
Small == <<"S">>
Large == <<"L">>

\* The color names a caller may pass to handleVariantClick.
ColorNames == {Red, RED, blue, Gold}

lowerChar(ch) ==
  CASE ch = "B" -> "b"
    [] ch = "C" -> "c"
    [] ch = "D" -> "d"
    [] ch = "E" -> "e"
    [] ch = "G" -> "g"
    [] ch = "L" -> "l"
    [] ch = "O" -> "o"
    [] ch = "R" -> "r"
    [] ch = "S" -> "s"
    [] OTHER -> ch

toLowerCase(s) == [i \in DOMAIN s |-> lowerChar(s[i])]

----------------------------------------------------------------------------
\* Data

NoPrice   == [none |-> "price"]
NoVariant == [none |-> "variant"]
NoClosure == [none |-> "closure"]
NoCycle   == [none |-> "cycle"]

Money(a) == [amount |-> a, currencyCode |-> "CAD"]

\* The compare-at price addFakeSaleOnSomeProducts attaches.
FakeSale == Money(300)

Opt(n, v) == [name |-> n, value |-> v]

Variant(i, p, c, opts) ==
  [id |-> i, price |-> Money(p), compareAtPrice |-> c,
   selectedOptions |-> opts, image |-> i]

\* The fetched products a card is mounted with (product.variants.edges).
Products ==
  { << Variant(1, 10, NoPrice, <<Opt(Color, Red)>>) >>,
    << Variant(1, 10, NoPrice, <<Opt(Color, Red)>>),
       Variant(2, 12, Money(8), <<Opt(color, Blue)>>) >>,
    << Variant(1, 10, NoPrice, <<Opt(Size, Red)>>),
       Variant(2, 11, NoPrice, <<Opt(Size, Large), Opt(COLOR, red)>>),
       Variant(3, 12, Money(8), <<Opt(Color, RED), Opt(Size, Small)>>) >> }

VARIABLES
  page,             \* the home route: the deferred catalog query, what the
                    \* recommended-products section shows, and the cards of
                    \* the grid other than the one the variables below hold
  product,          \* the product prop: the fetched variant list
  mounted,          \* the card is in the tree
  variants,         \* `variants` of the last committed render
  selectedVariant,  \* committed useState values
  hoverVariant,
  isHovering,
  queue,            \* batches of state updates waiting for a render
  active,           \* intervals created by setInterval and not cleared,
                    \* each with its callback's closure and whether it is due
  cleanup,          \* id of the interval the effect's cleanup clears, 0 if none
  effectsPending,   \* a commit whose passive effect has not run yet
  view,             \* what the last committed render displays
  clicked,          \* the color name of the click that led here, <<>> if none
  cycle             \* history: the hover cycle under way, NoCycle if none

vars == <<page, product, mounted, variants, selectedVariant, hoverVariant,
          isHovering, queue, active, cleanup, effectsPending, view, clicked,
          cycle>>

----------------------------------------------------------------------------
\* Pure parts of the component

Min(S) == CHOOSE x \in S : \A y \in S : x <= y

\* A sale that overwrites the price instead of the compare-at price.
addFakeSaleOnSomeProducts_price(vs, S) ==
  [i \in DOMAIN vs |->
     IF i \in S THEN [vs[i] EXCEPT !.price = FakeSale] ELSE vs[i]]

\* variants.map(...) of addFakeSaleOnSomeProducts; S is the set of positions
\* where Math.random() < 0.5 came out true.
addFakeSaleOnSomeProducts(vs, S) ==
  [i \in DOMAIN vs |->
     IF i \in S THEN [vs[i] EXCEPT !.compareAtPrice = FakeSale] ELSE vs[i]]

\* The predicate of variant.selectedOptions.some(...).
hasColor(variant, colorName) ==
  \E k \in DOMAIN variant.selectedOptions :
    /\ toLowerCase(variant.selectedOptions[k].name) = color
    /\ toLowerCase(variant.selectedOptions[k].value) = toLowerCase(colorName)

Max(S) == CHOOSE x \in S : \A y \in S : x >= y

\* A search that keeps the last match.
matchingVariant_last(vs, colorName) ==
  LET hits == {i \in DOMAIN vs : hasColor(vs[i], colorName)}
  IN IF hits = {} THEN NoVariant ELSE vs[Max(hits)]

\* A search that falls back to the first variant.
matchingVariant_fallback(vs, colorName) ==
  LET hits == {i \in DOMAIN vs : hasColor(vs[i], colorName)}
  IN IF hits = {} THEN vs[1] ELSE vs[Min(hits)]

\* variants.find(...): the first match, NoVariant for undefined.
matchingVariant(vs, colorName) ==
  LET hits == {i \in DOMAIN vs : hasColor(vs[i], colorName)}
  IN IF hits = {} THEN NoVariant ELSE vs[Min(hits)]

\* variants.findIndex((v) => v.id === id), 0-based, -1 when absent.
findIndex(vs, id) ==
  LET hits == {i \in DOMAIN vs : vs[i].id = id}
  IN IF hits = {} THEN -1 ELSE Min(hits) - 1

\* An updater that always steps from the selected variant.
nextVariant_fromSelected(cl, prevVariant) ==
  LET currentIndex == findIndex(cl.variants, cl.selectedVariant.id)
  IN cl.variants[((currentIndex + 1) % Len(cl.variants)) + 1]

\* The updater passed to setHoverVariant by the interval callback; cl holds
\* the `variants` and `selectedVariant` the callback closes over.
nextVariant(cl, prevVariant) ==
  LET currentIndex ==
        findIndex(cl.variants,
                  IF prevVariant # NoVariant THEN prevVariant.id
                                             ELSE cl.selectedVariant.id)
  IN cl.variants[((currentIndex + 1) % Len(cl.variants)) + 1]

\* The option values the swatches are rendered for: the values of the
\* product's 'color'-named options.  The backend lists every value of an
\* option, also one (Gold) that none of the fetched variants carries.
colorOptionValues(p) ==
  UNION {{p[i].selectedOptions[k].value :
            k \in {j \in DOMAIN p[i].selectedOptions :
                     toLowerCase(p[i].selectedOptions[j].name) = color}} :
         i \in DOMAIN p}
    \cup {Gold}

\* A swatch marked by exact comparison of the value.
isSelected_exact(sel, value) ==
  \E k \in DOMAIN sel.selectedOptions :
    /\ toLowerCase(sel.selectedOptions[k].name) = color
    /\ sel.selectedOptions[k].value = value

\* isSelected of the swatch for option value `value`.
isSelected(sel, value) ==
  \E k \in DOMAIN sel.selectedOptions :
    /\ toLowerCase(sel.selectedOptions[k].name) = color
    /\ toLowerCase(sel.selectedOptions[k].value) = toLowerCase(value)

Swatches(p, sel) == [v \in colorOptionValues(p) |-> isSelected(sel, v)]

\* A card whose image ignores the hover preview.
RenderView_imageSelected(p, sel, hov) ==
  [badge          |-> sel.compareAtPrice # NoPrice,
   image          |-> sel.image,
   actualPrice    |-> sel.price,
   compareAtPrice |-> sel.compareAtPrice,
   swatches       |-> Swatches(p, sel)]

\* A card whose badge follows the displayed variant.
RenderView_badgeDisplayed(p, sel, hov) ==
  [badge          |-> (IF hov # NoVariant THEN hov ELSE sel).compareAtPrice
                        # NoPrice,
   image          |-> (IF hov # NoVariant THEN hov ELSE sel).image,
   actualPrice    |-> sel.price,
   compareAtPrice |-> sel.compareAtPrice,
   swatches       |-> Swatches(p, sel)]

\* The JSX of the card: badge, image and <Price>.
RenderView(p, sel, hov) ==
  [badge          |-> sel.compareAtPrice # NoPrice,
   image          |-> (IF hov # NoVariant THEN hov ELSE sel).image,
   actualPrice    |-> sel.price,
   compareAtPrice |-> sel.compareAtPrice,
   swatches       |-> Swatches(p, sel)]

----------------------------------------------------------------------------
\* State updates

SetSelected(v) == [hook |-> "selectedVariant", kind |-> "set", val |-> v,
                   cl |-> NoClosure]
SetHover(v)    == [hook |-> "hoverVariant", kind |-> "set", val |-> v,
                   cl |-> NoClosure]
SetHovering(b) == [hook |-> "isHovering", kind |-> "set", val |-> b,
                   cl |-> NoClosure]
UpdateHover(c) == [hook |-> "hoverVariant", kind |-> "updater",
                   val |-> NoVariant, cl |-> c]

HookState(sel, hov, ish) ==
  [selectedVariant |-> sel, hoverVariant |-> hov, isHovering |-> ish]

\* A tick whose updater result lands in selectedVariant.
ApplyUpdate_tickSelects(st, u) ==
  CASE u.hook = "selectedVariant" -> [st EXCEPT !.selectedVariant = u.val]
    [] u.hook = "isHovering"      -> [st EXCEPT !.isHovering = u.val]
    [] u.hook = "hoverVariant"    ->
         IF u.kind = "set" THEN [st EXCEPT !.hoverVariant = u.val]
         ELSE [st EXCEPT !.selectedVariant = nextVariant(u.cl, st.hoverVariant)]

\* One update applied to the hook it belongs to.
ApplyUpdate(st, u) ==
  CASE u.hook = "selectedVariant" -> [st EXCEPT !.selectedVariant = u.val]
    [] u.hook = "isHovering"      -> [st EXCEPT !.isHovering = u.val]
    [] u.hook = "hoverVariant"    ->
         [st EXCEPT !.hoverVariant =
            IF u.kind = "set" THEN u.val ELSE nextVariant(u.cl, @)]

RECURSIVE ApplyAll(_, _)
ApplyAll(st, us) ==
  IF us = <<>> THEN st ELSE ApplyAll(ApplyUpdate(st, Head(us)), Tail(us))

RECURSIVE Flatten(_)
Flatten(q) == IF q = <<>> THEN <<>> ELSE Head(q) \o Flatten(Tail(q))

\* The hook state a render computes from the committed state and the queue.
Reduce(q) ==
  ApplyAll(HookState(selectedVariant, hoverVariant, isHovering), Flatten(q))

IsTick(batch)  == batch = <<UpdateHover(batch[1].cl)>>
IsEnter(batch) == batch = <<SetHovering(TRUE)>>
IsLeave(batch) == batch = <<SetHovering(FALSE), SetHover(NoVariant)>>

----------------------------------------------------------------------------
\* History of the hover cycle, kept for the cycle-order property: the list
\* position (0-based) of the variant displayed when isHovering became true
\* and the number of ticks applied since, modulo the list length.  A
\* pointer-leave, a click or an unmount ends the cycle.

PositionOf(id) == (CHOOSE i \in DOMAIN product : product[i].id = id) - 1

DisplayedOf(st) ==
  IF st.hoverVariant # NoVariant THEN st.hoverVariant ELSE st.selectedVariant

CycleStep(cyc, st, u) ==
  IF u.kind = "updater"
    THEN IF cyc = NoCycle THEN NoCycle
         ELSE [cyc EXCEPT !.k = (@ + 1) % Len(product)]
    ELSE IF u.hook = "isHovering" /\ u.val = TRUE
           THEN IF st.isHovering THEN cyc
                ELSE [start |-> PositionOf(DisplayedOf(st).id), k |-> 0]
           ELSE NoCycle

RECURSIVE CycleAll(_, _, _)
CycleAll(cyc, st, us) ==
  IF us = <<>> THEN cyc
  ELSE CycleAll(CycleStep(cyc, st, Head(us)), ApplyUpdate(st, Head(us)),
                Tail(us))

CycleAfter(q) ==
  CycleAll(cycle, HookState(selectedVariant, hoverVariant, isHovering),
           Flatten(q))

----------------------------------------------------------------------------
\* The hover effect: cleanup of the previous run, then the body.

Closure(vs, sel) == [variants |-> vs, selectedVariant |-> sel]

FreshId(ivs) == Min({n \in 1..(Cardinality(ivs) + 1) :
                       \A iv \in ivs : iv.id # n})

\* An effect without the variants.length guard.
RunEffect_noLengthGuard(ivs, cln, st, vs) ==
  LET cleared == {iv \in ivs : iv.id # cln}
  IN IF ~st.isHovering
       THEN [active |-> cleared, cleanup |-> 0]
       ELSE LET n == FreshId(cleared)
            IN [active  |-> cleared \cup
                            {[id |-> n, cl |-> Closure(vs, st.selectedVariant),
                              due |-> FALSE]},
                cleanup |-> n]

\* An effect that sets up no interval once a preview is on display.
RunEffect_previewStops(ivs, cln, st, vs) ==
  LET cleared == {iv \in ivs : iv.id # cln}
  IN IF ~st.isHovering \/ Len(vs) <= 1 \/ st.hoverVariant # NoVariant
       THEN [active |-> cleared, cleanup |-> 0]
       ELSE LET n == FreshId(cleared)
            IN [active  |-> cleared \cup
                            {[id |-> n, cl |-> Closure(vs, st.selectedVariant),
                              due |-> FALSE]},
                cleanup |-> n]

\* Result of running the effect for a commit with hook state st and render
\* variants vs: [active, cleanup].
RunEffect(ivs, cln, st, vs) ==
  LET cleared == {iv \in ivs : iv.id # cln}
  IN IF ~st.isHovering \/ Len(vs) <= 1
       THEN [active |-> cleared, cleanup |-> 0]
       ELSE LET n == FreshId(cleared)
            IN [active  |-> cleared \cup
                            {[id |-> n, cl |-> Closure(vs, st.selectedVariant),
                              due |-> FALSE]},
                cleanup |-> n]

\* Unmount runs the cleanup only.
RunCleanup(ivs, cln) ==
  [active |-> {iv \in ivs : iv.id # cln}, cleanup |-> 0]

\* The outcomes of the Math.random() draws of one render that the model
\* enumerates: the set of list positions where the draw was below 0.5.
SaleDraws == {{}, {1}}

----------------------------------------------------------------------------
\* The home route (src/app/routes/_index.tsx): the deferred catalog query and
\* the recommended-products section.  The section mounts one card per
\* returned product; the card variables hold the card in focus (the one that
\* handles the next event) and page.others holds the other cards of the grid.

NoResponse == [none |-> "response"]
NoView     == [none |-> "view"]

\* The results the storefront query is fulfilled with
\* (response.products.nodes): no product, one product, two products.
Catalogs ==
  LET one == CHOOSE p \in Products : Len(p) = 1
      two == CHOOSE p \in Products : Len(p) = 2
  IN {<<>>, <<one>>, <<two, one>>}

\* The card the variables hold, as one value.
Card ==
  [product |-> product, mounted |-> mounted, variants |-> variants,
   selectedVariant |-> selectedVariant, hoverVariant |-> hoverVariant,
   isHovering |-> isHovering, queue |-> queue, active |-> active,
   cleanup |-> cleanup, effectsPending |-> effectsPending, view |-> view,
   clicked |-> clicked, cycle |-> cycle]

\* What the card variables hold while the grid has no card.
NoCard ==
  [product |-> <<>>, mounted |-> FALSE, variants |-> <<>>,
   selectedVariant |-> NoVariant, hoverVariant |-> NoVariant,
   isHovering |-> FALSE, queue |-> <<>>, active |-> {}, cleanup |-> 0,
   effectsPending |-> FALSE, view |-> NoView, clicked |-> <<>>,
   cycle |-> NoCycle]

\* A first render that selects the last variant.
MountCard_last(p, S) ==
  LET vs == addFakeSaleOnSomeProducts(p, S)
  IN [product |-> p, mounted |-> TRUE, variants |-> vs,
      selectedVariant |-> vs[Len(vs)], hoverVariant |-> NoVariant,
      isHovering |-> FALSE, queue |-> <<>>, active |-> {}, cleanup |-> 0,
      effectsPending |-> FALSE,
      view |-> RenderView(p, vs[Len(vs)], NoVariant),
      clicked |-> <<>>, cycle |-> NoCycle]

\* The first render of a card for product p with sale draws S: the useState
\* initial values, and the first run of the effect, which returns early
\* because isHovering is false.
MountCard(p, S) ==
  LET vs == addFakeSaleOnSomeProducts(p, S)
  IN [product |-> p, mounted |-> TRUE, variants |-> vs,
      selectedVariant |-> vs[1], hoverVariant |-> NoVariant,
      isHovering |-> FALSE, queue |-> <<>>, active |-> {}, cleanup |-> 0,
      effectsPending |-> FALSE, view |-> RenderView(p, vs[1], NoVariant),
      clicked |-> <<>>, cycle |-> NoCycle]

\* The card variables take the values of card c.
Show(c) ==
  /\ product' = c.product
  /\ mounted' = c.mounted
  /\ variants' = c.variants
  /\ selectedVariant' = c.selectedVariant
  /\ hoverVariant' = c.hoverVariant
  /\ isHovering' = c.isHovering
  /\ queue' = c.queue
  /\ active' = c.active
  /\ cleanup' = c.cleanup
  /\ effectsPending' = c.effectsPending
  /\ view' = c.view
  /\ clicked' = c.clicked
  /\ cycle' = c.cycle

\* The page once the query has been fulfilled with `nodes` and the section
\* has rendered the grid; the cards other than the first are `others`.
GridPage(nodes, others) ==
  [query |-> "fulfilled",
   recommendedProducts |-> [status |-> "resolved",
                            response |-> [nodes |-> nodes]],
   queries |-> 1, logged |-> 0, section |-> "grid",
   focus |-> IF nodes = <<>> THEN 0 ELSE 1, others |-> others]

----------------------------------------------------------------------------
Init ==
  /\ product \in Products
  /\ page = GridPage(<<product>>, <<>>)
  /\ mounted = TRUE
  /\ \E S \in SaleDraws : variants = addFakeSaleOnSomeProducts(product, S)
  /\ selectedVariant = variants[1]
  /\ hoverVariant = NoVariant
  /\ isHovering = FALSE
  /\ queue = <<>>
  /\ active = {}
  /\ cleanup = 0
  /\ effectsPending = FALSE
  /\ view = RenderView(product, selectedVariant, hoverVariant)
  /\ clicked = <<>>
  /\ cycle = NoCycle

\* A render that commits hook state st: new `variants`, new output, and the
\* effect left to run (its dependency `variants` is a new array every time).
Commit(st) ==
  /\ selectedVariant' = st.selectedVariant
  /\ hoverVariant' = st.hoverVariant
  /\ isHovering' = st.isHovering
  /\ \E S \in SaleDraws : variants' = addFakeSaleOnSomeProducts(product, S)
  /\ view' = RenderView(product, st.selectedVariant, st.hoverVariant)

\* A pointer-enter that previews the next variant at once.
handleMouseEnter_preview ==
  /\ mounted
  /\ Len(queue) < MaxPending
  /\ queue' = Append(queue, <<SetHovering(TRUE),
                              UpdateHover(Closure(variants, selectedVariant))>>)
  /\ clicked' = <<>>
  /\ UNCHANGED <<page, product, mounted, variants, selectedVariant, hoverVariant,
                 isHovering, active, cleanup, effectsPending, view, cycle>>

handleMouseEnter ==
  /\ mounted
  /\ Len(queue) < MaxPending
  /\ queue' = Append(queue, <<SetHovering(TRUE)>>)
  /\ clicked' = <<>>
  /\ UNCHANGED <<page, product, mounted, variants, selectedVariant, hoverVariant,
                 isHovering, active, cleanup, effectsPending, view, cycle>>

\* A pointer-leave that also drops the preview of every other card.
handleMouseLeave_shared ==
  /\ mounted
  /\ Len(queue) < MaxPending
  /\ queue' = Append(queue, <<SetHovering(FALSE), SetHover(NoVariant)>>)
  /\ clicked' = <<>>
  /\ page' = [page EXCEPT
                !.others = [j \in DOMAIN @ |->
                              [@[j] EXCEPT !.hoverVariant = NoVariant]]]
  /\ UNCHANGED <<product, mounted, variants, selectedVariant, hoverVariant,
                 isHovering, active, cleanup, effectsPending, view, cycle>>

handleMouseLeave ==
  /\ mounted
  /\ Len(queue) < MaxPending
  /\ queue' = Append(queue, <<SetHovering(FALSE), SetHover(NoVariant)>>)
  /\ clicked' = <<>>
  /\ UNCHANGED <<page, product, mounted, variants, selectedVariant, hoverVariant,
                 isHovering, active, cleanup, effectsPending, view, cycle>>

\* TWO_SECONDS_TRANSITION elapse for interval iv: its callback becomes due.
\* The period is far longer than scheduled work waits, so it elapses only
\* when no update and no effect is pending.
Elapse ==
  /\ queue = <<>>
  /\ ~effectsPending
  /\ \E iv \in active :
       /\ ~iv.due
       /\ active' = (active \ {iv}) \cup {[iv EXCEPT !.due = TRUE]}
  /\ clicked' = <<>>
  /\ UNCHANGED <<page, product, mounted, variants, selectedVariant, hoverVariant,
                 isHovering, queue, cleanup, effectsPending, view, cycle>>

\* The interval callback of a due interval iv runs, as a task of its own:
\* handlers, renders and effects may have run since it became due.
Tick ==
  /\ \E iv \in active :
       /\ iv.due
       /\ active' = (active \ {iv}) \cup {[iv EXCEPT !.due = FALSE]}
       /\ IF mounted
            THEN /\ Len(queue) < MaxPending
                 /\ queue' = Append(queue, <<UpdateHover(iv.cl)>>)
            ELSE queue' = queue
  /\ clicked' = <<>>
  /\ UNCHANGED <<page, product, mounted, variants, selectedVariant, hoverVariant,
                 isHovering, cleanup, effectsPending, view, cycle>>

\* The scheduled render of the pending updates.  React runs a pending
\* passive effect before it renders again, and bails out without committing
\* when the reduced state is the committed state.
Render ==
  /\ mounted
  /\ queue # <<>>
  /\ ~effectsPending
  /\ LET st == Reduce(queue)
     IN IF st = HookState(selectedVariant, hoverVariant, isHovering)
          THEN UNCHANGED <<variants, selectedVariant, hoverVariant,
                           isHovering, view, effectsPending>>
          ELSE Commit(st) /\ effectsPending' = TRUE
  /\ queue' = <<>>
  /\ cycle' = CycleAfter(queue)
  /\ clicked' = <<>>
  /\ UNCHANGED <<page, product, mounted, active, cleanup>>

\* The passive effect of the last commit (or of the unmount).
FlushEffects ==
  /\ effectsPending
  /\ LET r == IF mounted
                THEN RunEffect(active, cleanup,
                       HookState(selectedVariant, hoverVariant, isHovering),
                       variants)
                ELSE RunCleanup(active, cleanup)
     IN active' = r.active /\ cleanup' = r.cleanup
  /\ effectsPending' = FALSE
  /\ UNCHANGED <<page, product, mounted, variants, selectedVariant, hoverVariant,
                 isHovering, queue, view, cycle>>
  /\ clicked' = <<>>

\* onClick of a swatch.  The handler closes over `variants` of the last
\* committed render.  The click is a discrete event: a pending effect runs
\* first, and the render of the updates and its effect follow at once.
handleVariantClick(colorName) ==
  /\ mounted
  /\ clicked' = colorName
  /\ LET m == matchingVariant(variants, colorName)
     IN IF m # NoVariant
          THEN LET q  == Append(queue, <<SetSelected(m), SetHover(NoVariant),
                                         SetHovering(FALSE)>>)
                   st == Reduce(q)
                   e0 == IF effectsPending
                           THEN RunEffect(active, cleanup,
                                  HookState(selectedVariant, hoverVariant,
                                            isHovering), variants)
                           ELSE [active |-> active, cleanup |-> cleanup]
               IN /\ queue' = <<>>
                  /\ cycle' = CycleAfter(q)
                  /\ IF st = HookState(selectedVariant, hoverVariant,
                                       isHovering)
                       THEN /\ active' = e0.active
                            /\ cleanup' = e0.cleanup
                            /\ UNCHANGED <<variants, selectedVariant,
                                           hoverVariant, isHovering, view>>
                       ELSE /\ Commit(st)
                            /\ \E r \in {RunEffect(e0.active, e0.cleanup, st,
                                                    variants')} :
                                 active' = r.active /\ cleanup' = r.cleanup
                  /\ effectsPending' = FALSE
          ELSE UNCHANGED <<variants, selectedVariant, hoverVariant, isHovering,
                           queue, active, cleanup, effectsPending, view,
                           cycle>>
  /\ UNCHANGED <<page, product, mounted>>

\* The parent removes the card; the effect's cleanup is left to run.
Unmount ==
  /\ mounted
  /\ mounted' = FALSE
  /\ queue' = <<>>
  /\ effectsPending' = TRUE
  /\ clicked' = <<>>
  /\ cycle' = NoCycle
  /\ UNCHANGED <<page, product, variants, selectedVariant, hoverVariant, isHovering,
                 active, cleanup, view>>

Next ==
  \/ handleMouseEnter
  \/ handleMouseLeave
  \/ \E c \in ColorNames : handleVariantClick(c)
  \/ Elapse
  \/ Tick
  \/ Render
  \/ FlushEffects
  \/ Unmount

Spec == Init /\ [][Next]_vars

----------------------------------------------------------------------------
\* The home route: the loader has issued the query, the section shows the
\* Suspense fallback, and no card is mounted.

cardVars == <<product, mounted, variants, selectedVariant, hoverVariant,
              isHovering, queue, active, cleanup, effectsPending, view,
              clicked, cycle>>

InitPage ==
  /\ page = [query |-> "pending",
             recommendedProducts |-> [status |-> "pending",
                                      response |-> NoResponse],
             queries |-> 1, logged |-> 0, section |-> "loading",
             focus |-> 0, others |-> <<>>]
  /\ product = NoCard.product
  /\ mounted = NoCard.mounted
  /\ variants = NoCard.variants
  /\ selectedVariant = NoCard.selectedVariant
  /\ hoverVariant = NoCard.hoverVariant
  /\ isHovering = NoCard.isHovering
  /\ queue = NoCard.queue
  /\ active = NoCard.active
  /\ cleanup = NoCard.cleanup
  /\ effectsPending = NoCard.effectsPending
  /\ view = NoCard.view
  /\ clicked = NoCard.clicked
  /\ cycle = NoCard.cycle

\* A handler that logs the error and lets the rejection through.
catchError_rethrow(pg) ==
  [pg EXCEPT !.logged = @ + 1,
             !.recommendedProducts = [status |-> "rejected",
                                      response |-> NoResponse]]

\* The .catch handler of the query: console.error, then null.
catchError(pg) ==
  [pg EXCEPT !.logged = @ + 1,
             !.recommendedProducts = [status |-> "resolved",
                                      response |-> NoResponse]]

\* The storefront answers the query.
QueryFulfil ==
  /\ page.query = "pending"
  /\ \E nodes \in Catalogs :
       page' = [page EXCEPT !.query = "fulfilled",
                            !.recommendedProducts =
                               [status |-> "resolved",
                                response |-> [nodes |-> nodes]]]
  /\ UNCHANGED cardVars

\* The storefront query rejects.
QueryReject ==
  /\ page.query = "pending"
  /\ page' = catchError([page EXCEPT !.query = "rejected"])
  /\ UNCHANGED cardVars

\* <Await> renders once the promise it was given has settled: its children
\* for a resolved promise, the error boundary for a rejected one.  The
\* children return null for a null response, else the grid with one card
\* per node.
AwaitRender ==
  /\ page.section = "loading"
  /\ page.recommendedProducts.status # "pending"
  /\ LET rp == page.recommendedProducts
     IN IF rp.status = "rejected"
          THEN page' = [page EXCEPT !.section = "error"]
               /\ UNCHANGED cardVars
          ELSE IF rp.response = NoResponse
            THEN page' = [page EXCEPT !.section = "nothing"]
                 /\ UNCHANGED cardVars
            ELSE LET nodes == rp.response.nodes
                 IN \E D \in [DOMAIN nodes -> SaleDraws] :
                      /\ page' =
                           [page EXCEPT
                              !.section = "grid",
                              !.focus = IF nodes = <<>> THEN 0 ELSE 1,
                              !.others = [j \in DOMAIN nodes \ {1} |->
                                            MountCard(nodes[j], D[j])]]
                      /\ IF nodes = <<>>
                           THEN UNCHANGED cardVars
                           ELSE Show(MountCard(nodes[1], D[1]))

\* The next event belongs to card k of the grid.  Every card instance keeps
\* its own hook state, effect and intervals.  The model hands over while the
\* pointer rests on the card in focus and that card has nothing scheduled or
\* due (a pointer that left it would give it a pointer-leave first): the
\* situations in which one card is hovered, its interval running, while
\* another card handles an event.
Switch ==
  /\ page.section = "grid"
  /\ mounted
  /\ isHovering
  /\ queue = <<>>
  /\ ~effectsPending
  /\ \A iv \in active : ~iv.due
  /\ \E k \in DOMAIN page.others :
       /\ Show(page.others[k])
       /\ page' = [page EXCEPT
                     !.focus = k,
                     !.others =
                        [j \in (DOMAIN page.others \ {k}) \cup {page.focus} |->
                           IF j = page.focus
                             THEN [Card EXCEPT !.clicked = <<>>]
                             ELSE page.others[j]]]

NextPage ==
  \/ QueryFulfil
  \/ QueryReject
  \/ AwaitRender
  \/ Switch
  \/ Next

SpecPage == InitPage /\ [][NextPage]_vars

\* A card with two or more variants that is never clicked and never
\* unmounted, under the scheduling the browser gives it: a period that was
\* started elapses and a due callback runs however many events arrive in
\* between (strong fairness), and a scheduled render and a pending effect
\* run (weak fairness).
InitLive == Init /\ Len(product) >= 2

NextLive ==
  \/ handleMouseEnter
  \/ handleMouseLeave
  \/ Elapse
  \/ Tick
  \/ Render
  \/ FlushEffects

SpecLive ==
  /\ InitLive
  /\ [][NextLive]_vars
  /\ SF_vars(Elapse)
  /\ SF_vars(Tick)
  /\ WF_vars(Render)
  /\ WF_vars(FlushEffects)

----------------------------------------------------------------------------
\* Properties

\* The variant the card displays: hoverVariant if set, else selectedVariant.
Displayed ==
  IF hoverVariant # NoVariant THEN hoverVariant ELSE selectedVariant

\* Variant v has an option named 'color' whose value is c, both compared
\* case-insensitively.
ColorIs(v, c) ==
  \E k \in DOMAIN v.selectedOptions :
    /\ toLowerCase(v.selectedOptions[k].name) = color
    /\ toLowerCase(v.selectedOptions[k].value) = toLowerCase(c)

Matched(c) == \E i \in DOMAIN variants : ColorIs(variants[i], c)

\* v is the fetched variant f as some render lists it: f itself, or f with
\* the synthetic compare-at price.
ListsAs(v, f) ==
  v \in {f, [f EXCEPT !.compareAtPrice = FakeSale]}

InProduct(v) == \E i \in DOMAIN product : ListsAs(v, product[i])

\* C1: a swatch click with a color name that matches a variant's 'color'
\* option (case-insensitively) selects the first such variant in list order,
\* clears hoverVariant and sets isHovering to false.
C1_ClickSelectsFirstMatch ==
  [][(clicked' # <<>> /\ Matched(clicked'))
       => /\ \E i \in DOMAIN variants :
               /\ ColorIs(variants[i], clicked')
               /\ \A j \in 1..(i - 1) : ~ColorIs(variants[j], clicked')
               /\ selectedVariant' = variants[i]
          /\ hoverVariant' = NoVariant
          /\ isHovering' = FALSE]_vars

C1_Witness ==
  /\ clicked = RED
  /\ Len(product) = 3
  /\ selectedVariant.id = 2
  /\ hoverVariant = NoVariant
  /\ ~isHovering

\* C2: a swatch click with a color name no variant matches changes nothing:
\* neither the hook state, nor the pending updates, nor the timer, nor what
\* is displayed; a second such click finds the state the first one left.
C2_UnmatchedClickIsNoOp ==
  [][(clicked' # <<>> /\ ~Matched(clicked'))
       => UNCHANGED <<page, product, mounted, variants, selectedVariant,
                      hoverVariant, isHovering, queue, active, cleanup,
                      effectsPending, view>>]_vars

C2_Witness ==
  /\ clicked = Gold
  /\ isHovering
  /\ hoverVariant # NoVariant
  /\ active # {}

\* C3: while a hover cycle is under way (isHovering became true with the
\* displayed variant at list position start, and k ticks were applied with no
\* pointer-leave, click or unmount since), the displayed variant is the one at
\* position (start + k) mod N.
C3_HoverCycleOrder ==
  cycle # NoCycle
    => PositionOf(Displayed.id) = (cycle.start + cycle.k) % Len(product)

C3_Witness ==
  /\ Len(product) = 3
  /\ cycle # NoCycle
  /\ cycle.start = 1
  /\ cycle.k = 2
  /\ Displayed.id = 1

C5_SelectedIsMember ==
  /\ selectedVariant # NoVariant
  /\ InProduct(selectedVariant)

C5_Witness ==
  /\ clicked = blue
  /\ selectedVariant.id = 2
  /\ variants[1].compareAtPrice = FakeSale

\* C6: hoverVariant is none or one of the product's variants, and it is
\* present only while isHovering is true.
C6_HoverOnlyWhileHovering ==
  /\ hoverVariant = NoVariant \/ InProduct(hoverVariant)
  /\ ~isHovering => hoverVariant = NoVariant

\* C7: a card never has two active intervals; once the effect of the last
\* commit has run, an interval is active exactly if isHovering is true and
\* the product has more than one variant; a one-variant product never has an
\* interval and its hoverVariant stays none.
C7_TimerInvariant ==
  /\ Cardinality(active) <= 1
  /\ ~effectsPending
       => (active # {} <=> (mounted /\ isHovering /\ Len(product) > 1))
  /\ Len(product) = 1 => (active = {} /\ hoverVariant = NoVariant)

C7_Witness ==
  /\ Len(product) = 3
  /\ isHovering
  /\ ~effectsPending
  /\ Cardinality(active) = 1

\* Position of the last pointer batch (enter or leave) in q, 0 if none.
LastPointer(q) ==
  LET ps == {k \in DOMAIN q : IsEnter(q[k]) \/ IsLeave(q[k])}
  IN IF ps = {} THEN 0 ELSE Max(ps)

\* C8: the render that follows a pointer-leave (with no pointer-enter after
\* it) commits isHovering false and hoverVariant none, displays
\* selectedVariant's image and leaves selectedVariant as it was.
C8_LeaveRevertsDisplay ==
  [][(queue # <<>> /\ queue' = <<>> /\ clicked' = <<>> /\ mounted'
        /\ LastPointer(queue) # 0 /\ IsLeave(queue[LastPointer(queue)]))
       => /\ isHovering' = FALSE
          /\ hoverVariant' = NoVariant
          /\ view'.image = selectedVariant'.image
          /\ selectedVariant' = selectedVariant]_vars

\* C9: the effect never holds two intervals at once (the previous one is
\* cancelled before a new one is created), no interval survives the cleanup
\* of an unmount, and no tick is applied after a pointer-leave or a click
\* unless a pointer-enter came in between.
C9_TimerTeardown ==
  /\ Cardinality(active) <= 1
  /\ (~mounted /\ ~effectsPending) => active = {}
  /\ \A j \in DOMAIN queue :
       IsTick(queue[j])
         => LET before == SubSeq(queue, 1, j - 1)
            IN IF LastPointer(before) = 0
                 THEN isHovering
                 ELSE IsEnter(before[LastPointer(before)])

\* C10: the badge is shown exactly if selectedVariant carries a compare-at
\* price, whatever hoverVariant and isHovering are, and a step that leaves
\* selectedVariant alone (a tick among them) leaves the badge alone.
C10_BadgeFollowsSelected ==
  [][/\ view.badge <=> (selectedVariant.compareAtPrice # NoPrice)
     /\ view'.badge <=> (selectedVariant'.compareAtPrice # NoPrice)
     /\ selectedVariant' = selectedVariant => view'.badge = view.badge]_vars

C10_Witness ==
  /\ hoverVariant # NoVariant
  /\ hoverVariant.compareAtPrice # NoPrice
  /\ selectedVariant.compareAtPrice = NoPrice
  /\ ~view.badge

\* The fetched variant that v is a listing of.
FetchedOf(v) == product[CHOOSE i \in DOMAIN product : product[i].id = v.id]

\* C11: what the card shows of the selected variant follows the fetched
\* data: the badge and the struck-through compare-at price appear exactly
\* if the variant was fetched with a compare-at price, and show that price
\* (for [Red without, Blue with 8]: Red with its price only and no badge,
\* and after a click on Blue the badge and 8 struck through beside 12).
C11_DisplayFollowsFetched ==
  /\ view.actualPrice = FetchedOf(selectedVariant).price
  /\ view.compareAtPrice = FetchedOf(selectedVariant).compareAtPrice
  /\ view.badge <=> (FetchedOf(selectedVariant).compareAtPrice # NoPrice)

\* C12: the variant list is the same in every render of a mounted card, and
\* a click on the already selected color leaves the selected variant's price
\* data and the badge as they were.
C12_VariantDataFixed ==
  [][/\ variants' = variants
     /\ (clicked' # <<>> /\ Matched(clicked')
           /\ matchingVariant(variants, clicked').id = selectedVariant.id)
          => /\ selectedVariant'.price = selectedVariant.price
             /\ selectedVariant'.compareAtPrice
                  = selectedVariant.compareAtPrice
             /\ view'.badge = view.badge]_vars

\* C14: handleMouseEnter itself changes nothing that is displayed; the
\* render of pointer-enter updates alone commits isHovering true with
\* selectedVariant, hoverVariant and the output unchanged; and the displayed
\* variant changes only in a step that applies a tick, a pointer-leave or a
\* click.
C14_EnterKeepsDisplay ==
  [][/\ queue' = Append(queue, <<SetHovering(TRUE)>>)
          => UNCHANGED <<selectedVariant, hoverVariant, view>>
     /\ (queue # <<>> /\ queue' = <<>> /\ clicked' = <<>> /\ mounted'
           /\ \A k \in DOMAIN queue : IsEnter(queue[k]))
          => /\ isHovering' = TRUE
             /\ UNCHANGED <<selectedVariant, hoverVariant, view>>
     /\ Displayed' # Displayed
          => \/ clicked' # <<>>
             \/ \E k \in DOMAIN queue : IsTick(queue[k]) \/ IsLeave(queue[k])
    ]_vars

C14_Witness ==
  /\ Len(product) = 2
  /\ isHovering
  /\ effectsPending
  /\ active = {}
  /\ queue = <<>>
  /\ hoverVariant = NoVariant
  /\ selectedVariant.id = 2

\* C18: the swatch of a color option value is marked exactly if
\* selectedVariant has a 'color'-named option with that value, compared
\* case-insensitively; a successful click on a swatch leaves that swatch
\* marked; and a step that leaves selectedVariant alone (a tick among them)
\* leaves the marks alone.
C18_SwatchMarking ==
  [][/\ \A v \in DOMAIN view.swatches :
          view.swatches[v] <=> ColorIs(selectedVariant, v)
     /\ \A v \in DOMAIN view'.swatches :
          view'.swatches[v] <=> ColorIs(selectedVariant', v)
     /\ (clicked' \in DOMAIN view'.swatches /\ Matched(clicked'))
          => view'.swatches[clicked']
     /\ selectedVariant' = selectedVariant => view'.swatches = view.swatches
    ]_vars

C18_Witness ==
  /\ Len(product) = 3
  /\ clicked = RED
  /\ view.swatches[RED]
  /\ view.swatches[red]
  /\ ~view.swatches[Gold]

\* C19: selectedVariant changes only in the step of a swatch click whose
\* color name matches a variant.
C19_OnlyClickSelects ==
  [][selectedVariant' # selectedVariant
       => (clicked' # <<>> /\ Matched(clicked'))]_vars

C19_Witness ==
  /\ clicked = Red
  /\ Len(product) = 2
  /\ selectedVariant.id = 1
  /\ selectedVariant.compareAtPrice = FakeSale
  /\ cycle = NoCycle
  /\ active = {}

\* Card j of the grid, and the part of a card the independence is about.
CardAt(j) == IF j = page.focus THEN Card ELSE page.others[j]

Nodes == page.recommendedProducts.response.nodes

Logical(c) == <<c.selectedVariant, c.hoverVariant, c.isHovering, c.active>>

\* C13: one query per load and no retry; while it is pending the section
\* shows the loading placeholder and no card; a rejection is caught, logged
\* and turned into a null response, never into a rejected promise or an
\* error boundary, and the section then renders nothing; a rendered
\* non-null response is the grid with exactly one card per returned product.
C13_CatalogFetchOutcome ==
  /\ page.queries = 1
  /\ page.query = "pending"
       => page.section = "loading" /\ page.recommendedProducts.status = "pending"
  /\ page.section = "loading" => Card = NoCard /\ page.others = <<>>
  /\ page.recommendedProducts.status # "rejected"
  /\ page.section \in {"loading", "nothing", "grid"}
  /\ page.query = "rejected"
       => /\ page.logged = 1
          /\ page.recommendedProducts
               = [status |-> "resolved", response |-> NoResponse]
          /\ page.section \in {"loading", "nothing"}
          /\ Card = NoCard
          /\ page.others = <<>>
  /\ page.section = "nothing" => page.recommendedProducts.response = NoResponse
  /\ page.section = "grid"
       => /\ page.query = "fulfilled"
          /\ page.logged = 0
          /\ page.recommendedProducts.response # NoResponse
          /\ (DOMAIN page.others) \cup ({page.focus} \ {0}) = DOMAIN Nodes
          /\ page.focus \notin DOMAIN page.others
          /\ \A j \in DOMAIN Nodes : CardAt(j).product = Nodes[j]
          /\ Nodes = <<>> => Card = NoCard

C13_Witness ==
  /\ page.query = "rejected"
  /\ page.section = "nothing"
  /\ page.logged = 1

\* A card as its first render leaves it, for product p.
FreshCard(c, p) ==
  /\ c.product = p
  /\ c.mounted
  /\ c.selectedVariant = c.variants[1]
  /\ c.selectedVariant.id = p[1].id
  /\ c.hoverVariant = NoVariant
  /\ c.isHovering = FALSE
  /\ c.active = {}
  /\ c.cleanup = 0
  /\ c.queue = <<>>

\* C15: the step that mounts the cards leaves every card, whatever its
\* number of variants, with selectedVariant the first variant of its list,
\* hoverVariant none, isHovering false and no interval.
C15_InitialState ==
  [][(page.section = "loading" /\ page'.section = "grid")
       => (\A j \in DOMAIN Nodes : FreshCard(CardAt(j), Nodes[j]))'
    ]_vars

C15_Witness ==
  /\ page.section = "grid"
  /\ Len(Nodes) = 2
  /\ \A j \in DOMAIN Nodes : FreshCard(CardAt(j), Nodes[j])
  /\ Len(product) = 2
  /\ selectedVariant.compareAtPrice = FakeSale
  /\ ~effectsPending

\* The premise of the hover cycle: the card stays mounted and hovered, and
\* no pointer-leave is waiting for its render.
Hovered ==
  /\ mounted
  /\ isHovering
  /\ Len(product) >= 2
  /\ \A k \in DOMAIN queue : ~IsLeave(queue[k])

VariantIds == UNION {{p[i].id : i \in DOMAIN p} : p \in Products}

\* C16: if from some point on a card with two or more variants stays
\* hovered, then every variant of its list is the displayed variant again
\* and again.
C16_HoverCycleLive ==
  \A id \in VariantIds :
    <>[](Hovered /\ \E i \in DOMAIN product : product[i].id = id)
      => []<>(Displayed.id = id)

C16_Witness ==
  /\ Hovered
  /\ hoverVariant # NoVariant
  /\ hoverVariant.id = selectedVariant.id
  /\ cycle # NoCycle
  /\ \E iv \in active : ~iv.due

\* C17: a step of the grid leaves selectedVariant, hoverVariant, isHovering
\* and the intervals of every card other than the one handling the event
\* as they were (and of every card, when the step only moves the focus).
C17_CardsIndependent ==
  [][(page.section = "grid" /\ page'.section = "grid")
       => \A j \in DOMAIN Nodes :
            (j # page.focus \/ page'.focus # page.focus)
              => Logical(CardAt(j))' = Logical(CardAt(j))
    ]_vars

C17_Witness ==
  /\ page.section = "grid"
  /\ clicked # <<>>
  /\ Matched(clicked)
  /\ \E j \in DOMAIN page.others :
       /\ page.others[j].isHovering
       /\ page.others[j].hoverVariant # NoVariant
       /\ page.others[j].active # {}

====
